---- MODULE Spec2Model ----
(***************************************************************************)
(* Cost analysis of a GraphQL operation (src/src/costAnalysis.js).         *)
(*                                                                         *)
(* The evaluator object (class CostAnalysis) is the state; its constructor *)
(* and its two visitor hooks are the actions.  computeNodeCost and the     *)
(* functions it calls are operators that thread the part of the object     *)
(* they mutate (operationMultipliers, the reported errors) through the     *)
(* recursion, in the order the code evaluates.                             *)
(***************************************************************************)
EXTENDS Integers, Sequences, FiniteSets, TLC

VARIABLES
    phase,                 \* "new" | "constructed" | "entered" | "left" | "threw"
    options,               \* the options object handed to the constructor
    cost,                  \* this.cost
    operationMultipliers,  \* this.operationMultipliers
    defaultCost,           \* this.defaultCost
    defaultComplexity,     \* this.defaultComplexity
    errors,                \* context.reportError calls, in order
    completed,             \* options.onComplete calls, in order
    warnings,              \* console.warn calls (deprecation)
    operation,             \* the operation the traversal is inside (input of enter)
    returned,              \* what computeNodeCost returned for that operation
    visitLog,              \* one record per selection visited by that walk
    levelLog,              \* one record per selection set walked
    entered,               \* number of operations entered so far
    calls,                 \* what the last leave hook called, in order
    production,            \* process.env.NODE_ENV === 'production'
    more                   \* the document holds further operations

vars == <<phase, options, cost, operationMultipliers, defaultCost,
          defaultComplexity, errors, completed, warnings, operation,
          returned, visitLog, levelLog, entered, calls, production, more>>

-----------------------------------------------------------------------------
(* Bounds of the model *)

\* numeric argument values range over -1 .. MaxArg
MaxArg == 2
\* operations entered per document traversal
MaxOps == 2

-----------------------------------------------------------------------------
(* Optional values: JS undefined is <<>>, a present value v is <<v>> *)

None == <<>>
Some(v) == <<v>>
IsSome(o) == Len(o) > 0
Get(o) == o[1]

Max(a, b) == IF a >= b THEN a ELSE b

RECURSIVE SumSeq(_)
SumSeq(s) == IF s = <<>> THEN 0 ELSE Head(s) + SumSeq(Tail(s))

RECURSIVE MaxSeq(_)
\* Math.max(...s) for a non-empty s
MaxSeq(s) == IF Len(s) = 1 THEN s[1] ELSE Max(Head(s), MaxSeq(Tail(s)))

-----------------------------------------------------------------------------
(* Argument values, as getArgumentValues yields them *)

IntVal(n) == [t |-> "int", n |-> n, items |-> <<>>]
ListVal(l) == [t |-> "list", n |-> 0, items |-> l]
StrVal == [t |-> "str", n |-> 0, items |-> <<>>]    \* a non-numeric string
Undefined == [t |-> "undefined", n |-> 0, items |-> <<>>]

\* the arguments of a field occurrence: argument name -> value
NoArgs == [a \in {} |-> Undefined]
Args1(name, v) == [a \in {name} |-> v]

\* selectn(path, fieldArgs): the value at an argument name, undefined when missing
selectn(path, fieldArgs) ==
    IF path \in DOMAIN fieldArgs THEN fieldArgs[path] ELSE Undefined

-----------------------------------------------------------------------------
(* The type schema: the one of the test suite (src/src/index.js) joined    *)
(* with the union/interface example of the README.                         *)

customCost == 8
firstComplexity == 2
secondComplexity == 5
thirdComplexity == 6
fourthComplexity == 4

\* a @cost directive: complexity, useMultipliers, multipliers, multiplier
Cost(c, u, ms) ==
    Some([complexity |-> c, useMultipliers |-> u, multipliers |-> ms,
          multiplier |-> None])
\* a @cost directive using the deprecated singular multiplier
CostDeprecated(c, m) ==
    Some([complexity |-> c, useMultipliers |-> None, multipliers |-> <<>>,
          multiplier |-> Some(m)])

\* a field definition of the schema; astNode: it was built from SDL
Field(type, directives) ==
    [type |-> type, astNode |-> TRUE, directives |-> directives]

NoFields == [f \in {} |-> Field("Int", None)]

Schema ==
    [Query |->
        [kind |-> "Object", astNode |-> TRUE, directives |-> None, fields |->
            [defaultCost |-> Field("Int", None),
             customCost |-> Field("Int", Cost(Some(customCost), Some(FALSE), <<>>)),
             badComplexityArgument |-> Field("Int", Cost(Some(12), None, <<>>)),
             customCostWithResolver |->
                 Field("Int", Cost(Some(fourthComplexity), Some(TRUE), <<"limit">>)),
             first |->
                 Field("First", Cost(Some(firstComplexity), Some(TRUE), <<"limit">>)),
             severalMultipliers |->
                 Field("Int", Cost(Some(fourthComplexity), Some(TRUE),
                                   <<"coucou", "first", "last", "list">>)),
             pages |->
                 Field("Second", Cost(Some(fourthComplexity), Some(TRUE),
                                      <<"first", "last">>)),
             overrideTypeCost |-> Field("TypeCost", Cost(Some(2), None, <<>>)),
             getCostByType |-> Field("TypeCost", None),
             firstOrSecond |-> Field("FirstOrSecond", None),
             commonType |-> Field("CommonType", None)]],
     First |->
        [kind |-> "Object", astNode |-> TRUE, directives |-> None, fields |->
            [string |-> Field("String", None),
             common |-> Field("Int", None),
             second |->
                 Field("Second", Cost(Some(secondComplexity), Some(TRUE), <<"limit">>)),
             firstField |-> Field("String", Cost(Some(5), Some(FALSE), <<>>)),
             costWithoutMultipliers |->
                 Field("Second", Cost(Some(customCost), Some(FALSE), <<"limit">>)),
             legacy |-> Field("Int", CostDeprecated(Some(2), "limit"))]],
     Second |->
        [kind |-> "Object", astNode |-> TRUE, directives |-> None, fields |->
            [string |-> Field("String", None),
             common |-> Field("Int", None),
             third |->
                 Field("String", Cost(Some(thirdComplexity), Some(TRUE), <<"limit">>)),
             secondField |-> Field("String", Cost(Some(customCost), Some(FALSE), <<>>))]],
     TypeCost |->
        [kind |-> "Object", astNode |-> TRUE,
         directives |-> Cost(Some(3), None, <<>>), fields |->
            [string |-> Field("String", None),
             int |-> Field("Int", None)]],
     CommonType |->
        [kind |-> "Interface", astNode |-> TRUE,
         directives |-> Cost(Some(7), None, <<>>), fields |->
            [common |-> Field("Int", Cost(Some(3), Some(FALSE), <<>>))]],
     FirstOrSecond |->
        [kind |-> "Union", astNode |-> TRUE, directives |-> None,
         fields |-> NoFields],
     Int |->
        [kind |-> "Scalar", astNode |-> FALSE, directives |-> None,
         fields |-> NoFields],
     String |->
        [kind |-> "Scalar", astNode |-> FALSE, directives |-> None,
         fields |-> NoFields]]

\* schema.getType(name) is defined
IsType(name) == name \in DOMAIN Schema
\* schema.getQueryType() / getMutationType() / getSubscriptionType()
RootType(kind) ==
    CASE kind = "query" -> "Query"
      [] kind = "mutation" -> "undefined"
      [] kind = "subscription" -> "undefined"

-----------------------------------------------------------------------------
(* Selection nodes of a parsed document *)

FieldNode(name, args, selections) ==
    [kind |-> "Field", name |-> name, args |-> args, coerces |-> TRUE,
     typeCondition |-> None, selections |-> selections]
\* a field whose arguments getArgumentValues rejects
BadArgsNode(name) ==
    [kind |-> "Field", name |-> name, args |-> NoArgs, coerces |-> FALSE,
     typeCondition |-> None, selections |-> <<>>]
FragmentSpread(name) ==
    [kind |-> "FragmentSpread", name |-> name, args |-> NoArgs, coerces |-> TRUE,
     typeCondition |-> None, selections |-> <<>>]
InlineFragment(typeCondition, selections) ==
    [kind |-> "InlineFragment", name |-> "", args |-> NoArgs, coerces |-> TRUE,
     typeCondition |-> typeCondition, selections |-> selections]
Leaf(name) == FieldNode(name, NoArgs, <<>>)
Limit(name, v, selections) == FieldNode(name, Args1("limit", v), selections)

\* the fragment definitions of the document (context.getFragment)
Fragments ==
    [secondFields |->
        [typeCondition |-> "Second", selections |-> <<Leaf("secondField")>>],
     firstFields |->
        [typeCondition |-> "First", selections |-> <<Leaf("firstField")>>],
     pagedSecond |->
        [typeCondition |-> "First",
         selections |-> <<Limit("second", IntVal(2), <<Leaf("secondField")>>)>>],
     selfSpread |->
        [typeCondition |-> "First",
         selections |-> <<Leaf("firstField"), FragmentSpread("selfSpread")>>],
     ping |->
        [typeCondition |-> "First", selections |-> <<FragmentSpread("pong")>>],
     pong |->
        [typeCondition |-> "First",
         selections |-> <<Leaf("firstField"), FragmentSpread("ping")>>]]

-----------------------------------------------------------------------------
(* The part of the evaluator a walk mutates, threaded through the calls:   *)
(*   operationMultipliers  this.operationMultipliers                       *)
(*   errors                what was handed to context.reportError          *)
(*   warnings              console.warn calls                              *)
(*   evaluations           computeCost calls that were given a             *)
(*                         configuration object                            *)
(*   visitLog, levelLog    what the walk did, for the properties           *)
(*   threw                 an exception left the walk                      *)
(*   expanding             the fragments whose walk is on the call stack   *)

WalkState(multipliers, errs, warns) ==
    [operationMultipliers |-> multipliers, errors |-> errs, warnings |-> warns,
     evaluations |-> 0, visitLog |-> <<>>, levelLog |-> <<>>, threw |-> FALSE,
     expanding |-> {}]

RangeError(min, max) == [kind |-> "complexityRange", a |-> min, b |-> max]
\* costAnalysisMessage(max, actual)
CostError(max, actual) == [kind |-> "maximumCost", a |-> max, b |-> actual]
CustomError(max, actual) == [kind |-> "createError", a |-> max, b |-> actual]

-----------------------------------------------------------------------------
(* Multiplier extraction *)

\* variant: an array is converted like any other value, Number(value) || 0
toMultiplierOfNumber(value) == IF value.t = "int" THEN value.n ELSE 0

\* one name of getMultipliersFromString: an array gives its length, anything
\* else Number(value) || 0
toMultiplier(value) ==
    IF value.t = "list" THEN Len(value.items)
    ELSE IF value.t = "int" THEN value.n
    ELSE 0

NonZero(m) == m # 0

getMultipliersFromString(multipliers, fieldArgs) ==
    SelectSeq([i \in 1..Len(multipliers) |->
                  toMultiplier(selectn(multipliers[i], fieldArgs))],
              NonZero)

\* every value node of the modelled directives is a string
getMultipliersFromListNode(listNode, fieldArgs) ==
    getMultipliersFromString(listNode, fieldArgs)

\* variant: the deprecated multiplier is not read any more
multiplierIgnored(name, fieldArgs) == None

\* the deprecated multiplier's value: a number, or undefined / NaN (None).
\* The modelled schemas apply it to Int arguments only.
multiplierValue(name, fieldArgs) ==
    IF IsSome(name) /\ selectn(Get(name), fieldArgs).t = "int"
    THEN Some(selectn(Get(name), fieldArgs).n)
    ELSE None

-----------------------------------------------------------------------------
(* Cost formula *)

\* multipliers.reduce((total, current) => total + current, 0)
RECURSIVE ProdSeq(_)
ProdSeq(s) == IF s = <<>> THEN 1 ELSE Head(s) * ProdSeq(Tail(s))

\* variant: the values of one field multiply each other
productOfMultipliers(multipliers) == ProdSeq(multipliers)

sumMultipliers(multipliers) == SumSeq(multipliers)

RECURSIVE reduceProduct(_, _)
reduceProduct(chain, acc) ==
    IF chain = <<>> THEN acc ELSE reduceProduct(Tail(chain), acc * Head(chain))

\* variant: only the last multiplier of the chain scales the complexity
applyLastMultiplier(chain, complexity) ==
    IF chain = <<>> THEN complexity ELSE complexity * chain[Len(chain)]

\* this.operationMultipliers.reduce((acc, m) => acc * m, complexity)
applyMultipliers(chain, complexity) == reduceProduct(chain, complexity)

\* the chain after a field with useMultipliers has been priced
extendMultipliers(chain, multipliers) ==
    IF Len(multipliers) > 0
    THEN Append(chain, sumMultipliers(multipliers))
    ELSE chain

\* variant: the bounds of the range are themselves refused
outOfRangeOrBound(complexity) ==
    /\ IsSome(options.complexityRange)
    /\ \/ complexity >= Get(Get(options.complexityRange).max)
       \/ complexity <= Get(Get(options.complexityRange).min)

\* complexity is outside options.complexityRange
outOfRange(complexity) ==
    /\ IsSome(options.complexityRange)
    /\ \/ complexity > Get(Get(options.complexityRange).max)
       \/ complexity < Get(Get(options.complexityRange).min)

\* variant: the multipliers are appended before the range is tested
appendedBeforeRange(chain, multipliers) == extendMultipliers(chain, multipliers)

\* lines 154-168: the chain after a complexity outside the range, the hook
\* returns before line 170
rejectedMultipliers(chain, multipliers) == chain

\* variant: the chain scales the complexity whatever useMultipliers says
withMultipliers(complexity, chain) == ProdSeq(chain) * complexity

\* the cost of a field that has no multipliers of its own to apply
withoutMultipliers(complexity, chain) == complexity

\* variant: the chain scales the default cost too
scaledDefaultCost(chain) == ProdSeq(chain) * defaultCost

\* lines 140-142: the cost of a field that has no configuration
unconfiguredCost(chain) == defaultCost

computeCost(args, st) ==
    IF ~IsSome(args)
    THEN [cost |-> unconfiguredCost(st.operationMultipliers), st |-> st]
    ELSE
      LET a == Get(args)
          useMultipliers ==
              IF IsSome(a.useMultipliers) THEN Get(a.useMultipliers) ELSE TRUE
          complexity ==
              IF IsSome(a.complexity) THEN Get(a.complexity) ELSE defaultComplexity
          deprecated == IsSome(a.multiplier) /\ Get(a.multiplier) # 0
          multipliers ==
              IF deprecated /\ Len(a.multipliers) = 0
              THEN <<Get(a.multiplier)>>
              ELSE a.multipliers
          st1 == [st EXCEPT !.warnings =
                               @ + (IF deprecated /\ ~production THEN 1 ELSE 0),
                            !.evaluations = @ + 1]
      IN  IF outOfRange(complexity)
          THEN [cost |-> defaultCost,
                st |-> [st1 EXCEPT !.errors =
                           Append(@, RangeError(Get(Get(options.complexityRange).min),
                                                Get(Get(options.complexityRange).max))),
                                   !.operationMultipliers =
                                       rejectedMultipliers(@, multipliers)]]
          ELSE IF useMultipliers
          THEN LET chain == extendMultipliers(st1.operationMultipliers, multipliers)
               IN  [cost |-> applyMultipliers(chain, complexity),
                    st |-> [st1 EXCEPT !.operationMultipliers = chain]]
          ELSE [cost |-> withoutMultipliers(complexity, st1.operationMultipliers),
                st |-> st1]

-----------------------------------------------------------------------------
(* Cost configuration *)

\* variant: an entry without any setting counts as no entry
costObjectOfSettings(parentType, name) ==
    IF /\ IsSome(options.costMap)
       /\ parentType \in DOMAIN Get(options.costMap)
       /\ name \in DOMAIN Get(options.costMap)[parentType]
       /\ Get(options.costMap)[parentType][name] #
              [complexity |-> None, useMultipliers |-> None,
               multipliers |-> <<>>, multiplier |-> None]
    THEN Some(Get(options.costMap)[parentType][name])
    ELSE None

\* options.costMap[parentType][name], None when falsy
costObjectOf(parentType, name) ==
    IF /\ IsSome(options.costMap)
       /\ parentType \in DOMAIN Get(options.costMap)
       /\ name \in DOMAIN Get(options.costMap)[parentType]
    THEN Some(Get(options.costMap)[parentType][name])
    ELSE None

getArgsFromCostMap(node, parentType, fieldArgs) ==
    LET costObject == costObjectOf(parentType, node.name)
    IN  IF ~IsSome(costObject)
        THEN None
        ELSE Some([useMultipliers |-> Get(costObject).useMultipliers,
                   multiplier |-> multiplierValue(Get(costObject).multiplier, fieldArgs),
                   complexity |-> Get(costObject).complexity,
                   multipliers |->
                       getMultipliersFromString(Get(costObject).multipliers, fieldArgs)])

\* directives: the cost directive of the definition, if it has one
getArgsFromDirectives(directives, fieldArgs) ==
    IF ~IsSome(directives)
    THEN None
    ELSE Some([complexity |->
                   IF IsSome(Get(directives).complexity)
                   THEN Get(directives).complexity
                   ELSE Some(defaultComplexity),
               multiplier |-> multiplierValue(Get(directives).multiplier, fieldArgs),
               multipliers |->
                   getMultipliersFromListNode(Get(directives).multipliers, fieldArgs),
               useMultipliers |->
                   IF IsSome(Get(directives).useMultipliers)
                   THEN Get(directives).useMultipliers
                   ELSE Some(TRUE)])

\* variant: the type-level directive is priced after the field-level one
typeDirectiveAlways(fieldType, costIsComputed) ==
    /\ IsType(fieldType)
    /\ Schema[fieldType].astNode
    /\ Schema[fieldType].kind = "Object"

\* the type-level directive applies to this field
typeDirectiveApplies(fieldType, costIsComputed) ==
    /\ IsType(fieldType)
    /\ Schema[fieldType].astNode
    /\ Schema[fieldType].kind = "Object"
    /\ costIsComputed = FALSE

\* lines 393-407: the directive of the field's type is priced when the field
\* itself gave no configuration; own is what lines 381-391 computed
costFromTypeDirective(field, fieldArgs, own, costIsComputed) ==
    IF typeDirectiveApplies(field.type, costIsComputed)
    THEN computeCost(
             getArgsFromDirectives(Schema[field.type].directives, fieldArgs),
             own.st)
    ELSE own

\* lines 379-408: the cost of a field from the schema's directives
costFromDirectives(field, fieldArgs, st) ==
    costFromTypeDirective(
        field, fieldArgs,
        IF field.astNode
        THEN computeCost(getArgsFromDirectives(field.directives, fieldArgs), st)
        ELSE [cost |-> defaultCost, st |-> st],
        field.astNode /\ IsSome(getArgsFromDirectives(field.directives, fieldArgs)))

\* the costMap option is set: the map prices every field
useCostMap == IsSome(options.costMap)

\* variant: a field the map does not name falls back to the directives
fieldCostWithFallback(childNode, typeDef, field, fieldArgs, st) ==
    IF useCostMap /\ IsSome(costObjectOf(typeDef, childNode.name))
    THEN computeCost(getArgsFromCostMap(childNode, typeDef, fieldArgs), st)
    ELSE costFromDirectives(field, fieldArgs, st)

\* lines 205-209 and 242: multipliers that is neither a function nor an
\* array has no map method, getMultipliersFromString throws a TypeError
multipliersThrow(costObject) ==
    IsSome(costObject) /\ "defaults" \in DOMAIN Get(costObject)

\* lines 367-408: the own cost of a resolved field
fieldCost(childNode, typeDef, field, fieldArgs, st) ==
    IF useCostMap
    THEN IF multipliersThrow(costObjectOf(typeDef, childNode.name))
         THEN [cost |-> 0, st |-> [st EXCEPT !.threw = TRUE]]
         ELSE computeCost(getArgsFromCostMap(childNode, typeDef, fieldArgs), st)
    ELSE costFromDirectives(field, fieldArgs, st)

-----------------------------------------------------------------------------
(* The tree walk *)

\* typeDef.getFields() of an object or interface type, {} otherwise
fieldsOf(typeDef) ==
    IF IsType(typeDef) /\ Schema[typeDef].kind \in {"Object", "Interface"}
    THEN Schema[typeDef].fields
    ELSE NoFields

\* variant: the chain a sibling subtree left behind is kept
keepMultipliers(parentMultipliers, current) == current

\* line 342: what operationMultipliers is set to before each child
resetMultipliers(parentMultipliers, current) == parentMultipliers

\* line 454: what one child adds to the total of its level
clamp(nodeCost) == Max(nodeCost, 0)

\* variant: the fragments of a level add up
levelTotalOfAll(total, fragmentCosts) == total + SumSeq(fragmentCosts)

\* lines 457-461: the value of a level
levelTotal(total, fragmentCosts) ==
    IF Len(fragmentCosts) = 0 THEN total ELSE total + MaxSeq(fragmentCosts)

\* variant: the type condition of a fragment definition is not resolved
fragmentTypeUnresolved(name) == "undefined"

\* the type a fragment is walked against
fragmentTypeOf(name) ==
    IF IsType(Fragments[name].typeCondition)
    THEN Fragments[name].typeCondition
    ELSE "undefined"

inlineFragmentTypeOf(childNode, typeDef) ==
    IF IsSome(childNode.typeCondition)
    THEN IF IsType(Get(childNode.typeCondition))
         THEN Get(childNode.typeCondition)
         ELSE "undefined"
    ELSE typeDef

Visit(path, childNode, typeDef, resolved, chainIn, own, chainOut, childCost, nodeCost, evaluations, reported) ==
    [path |-> path, kind |-> childNode.kind, name |-> childNode.name,
     parentType |-> typeDef, resolved |-> resolved,
     chainIn |-> chainIn, own |-> own, chainOut |-> chainOut,
     childCost |-> childCost, nodeCost |-> nodeCost, added |-> clamp(nodeCost),
     evaluations |-> evaluations, reported |-> reported]

\* a child that is skipped: its cost stays the default cost (line 343)
skippedChild(childNode, typeDef, path, st) ==
    [nodeCost |-> defaultCost, fragmentCosts |-> <<>>,
     st |-> [st EXCEPT !.visitLog =
                Append(@, Visit(path, childNode, typeDef, FALSE,
                                st.operationMultipliers, defaultCost,
                                st.operationMultipliers, 0, defaultCost, 0, 0))]]

\* lines 410-417: a field priced as own, whose selection set was walked as child
fieldResult(childNode, typeDef, path, st, own, child) ==
    [nodeCost |-> own.cost + child.ret, fragmentCosts |-> <<>>,
     st |-> [child.st EXCEPT !.visitLog =
                Append(@, Visit(path, childNode, typeDef, TRUE,
                                st.operationMultipliers, own.cost,
                                own.st.operationMultipliers, child.ret,
                                own.cost + child.ret,
                                own.st.evaluations - st.evaluations,
                                Len(own.st.errors) - Len(st.errors)))]]

\* lines 426-431 and 441-446: a fragment whose selection set was walked as frag
fragmentResult(childNode, typeDef, path, st, frag) ==
    [nodeCost |-> 0, fragmentCosts |-> <<frag.ret>>,
     st |-> [frag.st EXCEPT !.visitLog =
                Append(@, Visit(path, childNode, typeDef, TRUE,
                                st.operationMultipliers, 0,
                                st.operationMultipliers, frag.ret, 0, 0, 0))]]

\* lines 426-431: a spread of a fragment the document does not define
missingFragment(childNode, typeDef, path, st) ==
    [nodeCost |-> 0, fragmentCosts |-> <<defaultCost>>,
     st |-> [st EXCEPT !.visitLog =
                Append(@, Visit(path, childNode, typeDef, FALSE,
                                st.operationMultipliers, 0,
                                st.operationMultipliers, defaultCost, 0, 0, 0))]]

\* line 427: the walk of fragment name is put on the call stack
expandFragment(name, st) == [st EXCEPT !.expanding = @ \cup {name}]

\* line 427: the walk of a fragment returned frag to the level walked on st
returnFromFragment(st, frag) ==
    [ret |-> frag.ret, st |-> [frag.st EXCEPT !.expanding = st.expanding]]

\* lines 419-428: a spread of a fragment whose walk is on the call stack
\* already is walked again, without end: the call stack overflows and the
\* RangeError leaves the walk
stackOverflow(childNode, typeDef, path, st) ==
    [nodeCost |-> 0, fragmentCosts |-> <<>>, st |-> [st EXCEPT !.threw = TRUE]]

\* lines 448-451: any other kind of selection
otherResult(other) ==
    [nodeCost |-> other.ret, fragmentCosts |-> <<>>, st |-> other.st]

\* lines 454-461: the level after all children, from the loop's variables
levelResult(acc, path, typeDef, parentMultipliers) ==
    [ret |-> levelTotal(acc.total, acc.fragmentCosts),
     st |-> [acc.st EXCEPT !.levelLog =
                Append(@, [path |-> path, typeDef |-> typeDef,
                           parentMultipliers |-> parentMultipliers,
                           total |-> acc.total,
                           fragmentCosts |-> acc.fragmentCosts,
                           ret |-> levelTotal(acc.total, acc.fragmentCosts)])]]

\* lines 342-343: the evaluator before a child is visited
beforeChild(st, parentMultipliers) ==
    [st EXCEPT !.operationMultipliers = resetMultipliers(parentMultipliers, @)]

\* variant: the running total is clamped, not what the child adds
afterChildClampedTotal(acc, r) ==
    [total |-> Max(r.nodeCost + acc.total, 0),
     fragmentCosts |-> acc.fragmentCosts \o r.fragmentCosts,
     st |-> r.st]

\* lines 429, 444, 454: the loop's variables after a child gave r
afterChild(acc, r) ==
    [total |-> clamp(r.nodeCost) + acc.total,
     fragmentCosts |-> acc.fragmentCosts \o r.fragmentCosts,
     st |-> r.st]

RECURSIVE computeNodeCost(_, _, _, _, _)
RECURSIVE visitSelections(_, _, _, _, _, _)
RECURSIVE visitChild(_, _, _, _)
RECURSIVE visitField(_, _, _, _, _)

\* computeNodeCost(node, typeDef, parentMultipliers) on the evaluator st;
\* selections is node.selectionSet.selections, <<>> for a node without a
\* selection set; path is the place of the node in the operation.
computeNodeCost(selections, typeDef, parentMultipliers, path, st) ==
    IF selections = <<>> \/ st.threw
    THEN [ret |-> 0, st |-> st]
    ELSE levelResult(
             visitSelections(selections, 1, typeDef, parentMultipliers, path,
                             [total |-> 0, fragmentCosts |-> <<>>, st |-> st]),
             path, typeDef, parentMultipliers)

\* the loop of lines 339-455, from child i on; an exception ends it
visitSelections(selections, i, typeDef, parentMultipliers, path, acc) ==
    IF i > Len(selections) \/ acc.st.threw
    THEN acc
    ELSE visitSelections(
             selections, i + 1, typeDef, parentMultipliers, path,
             afterChild(acc, visitChild(selections[i], typeDef, Append(path, i),
                                        beforeChild(acc.st, parentMultipliers))))

\* the switch of lines 345-452 for one child
visitChild(childNode, typeDef, path, st) ==
    CASE childNode.kind = "Field" ->
           IF childNode.name \notin DOMAIN fieldsOf(typeDef)
           THEN skippedChild(childNode, typeDef, path, st)
           ELSE IF ~childNode.coerces
           THEN skippedChild(childNode, typeDef, path, st)
           ELSE visitField(childNode, typeDef, path, st,
                           fieldCost(childNode, typeDef,
                                     fieldsOf(typeDef)[childNode.name],
                                     childNode.args, st))
      [] childNode.kind = "FragmentSpread" ->
           IF childNode.name \notin DOMAIN Fragments
           THEN missingFragment(childNode, typeDef, path, st)
           ELSE IF childNode.name \in st.expanding
           THEN stackOverflow(childNode, typeDef, path, st)
           ELSE fragmentResult(
                    childNode, typeDef, path, st,
                    returnFromFragment(
                        st,
                        computeNodeCost(Fragments[childNode.name].selections,
                                        fragmentTypeOf(childNode.name),
                                        st.operationMultipliers, path,
                                        expandFragment(childNode.name, st))))
      [] childNode.kind = "InlineFragment" ->
           fragmentResult(
               childNode, typeDef, path, st,
               computeNodeCost(childNode.selections,
                               inlineFragmentTypeOf(childNode, typeDef),
                               st.operationMultipliers, path, st))
      [] OTHER ->
           otherResult(computeNodeCost(childNode.selections, typeDef, <<>>, path, st))

\* lines 410-417: the selection set of a field priced as own
visitField(childNode, typeDef, path, st, own) ==
    fieldResult(
        childNode, typeDef, path, st, own,
        computeNodeCost(childNode.selections,
                        fieldsOf(typeDef)[childNode.name].type,
                        own.st.operationMultipliers, path, own.st))

-----------------------------------------------------------------------------
(* Inputs: the options of the constructor *)

\* an entry costMap[type][field]
Entry(c, u, ms, m) ==
    [complexity |-> c, useMultipliers |-> u, multipliers |-> ms, multiplier |-> m]
EmptyEntry == Entry(None, None, <<>>, None)
\* an entry whose multipliers is an object of default values {name: value}
\* (README, Default multipliers), held in defaults
EntryWithDefaults(c, u, defaults) ==
    [complexity |-> c, useMultipliers |-> u, multipliers |-> <<>>,
     multiplier |-> None, defaults |-> defaults]

CostMapA ==
    [Query |->
        [first |-> Entry(Some(3), Some(TRUE), <<"limit">>, None),
         customCost |-> EmptyEntry,
         customCostWithResolver |->
             EntryWithDefaults(Some(fourthComplexity), None, [limit |-> 2]),
         overrideTypeCost |-> Entry(Some(4), Some(FALSE), <<"limit">>, None),
         pages |-> Entry(None, None, <<"first", "last">>, None),
         severalMultipliers |->
             Entry(Some(fourthComplexity), None, <<"first">>, Some("last"))],
     First |->
        [second |-> Entry(Some(3), Some(TRUE), <<>>, Some("limit")),
         firstField |-> EmptyEntry]]

Range(min, max) == [min |-> min, max |-> max]

AllOptions ==
    [maximumCost : {None, Some(-1), Some(0), Some(19)},
     defaultCost : {None, Some(-1), Some(2)},
     costMap : {None, Some(CostMapA)},
     complexityRange : {None, Some(Range(Some(3), Some(10))),
                        Some(Range(Some(2), Some(8))),
                        Some(Range(Some(-1), Some(5))),
                        Some(Range(Some(10), Some(3))),
                        Some(Range(Some(5), Some(5))),
                        Some(Range(None, None)),
                        Some(Range(Some(3), None)),
                        Some(Range(Some(0), Some(5))),
                        Some(Range(Some(-5), Some(0)))},
     onComplete : BOOLEAN,
     createError : BOOLEAN]

\* onComplete and createError do not interact: one of the two is given
Options ==
    {o \in AllOptions : o.onComplete # o.createError}

-----------------------------------------------------------------------------
(* Inputs: the operations of the document *)

Operation(kind, selections) == [operation |-> kind, selections |-> selections]
Query(selections) == Operation("query", selections)
NoOperation == Operation("none", <<>>)

\* values tried for a numeric argument: not supplied, or -1 .. MaxArg
LimitVals == {Undefined} \cup {IntVal(n) : n \in -1..MaxArg}
Positive == {IntVal(n) : n \in 1..MaxArg}
\* values tried for a list argument: not supplied, or 0 .. MaxArg items
ListVals == {Undefined} \cup {ListVal([i \in 1..k |-> "item"]) : k \in 0..MaxArg}

Optional(node) == {<<>>, <<node>>}

\* first { second { third } ... } ...: nested multipliers, and siblings
\* that follow the nested subtrees
Chain(a, b, c, t1, t2) ==
    Query(<<Limit("first", a,
              <<Limit("second", b, <<Limit("third", c, <<>>)>>)>> \o t1)>> \o t2)

ChainOps ==
    {Chain(a, b, c, <<>>, <<>>) : a \in LimitVals, b \in LimitVals, c \in LimitVals}
    \cup
    {Chain(a, b, c, t1, t2) :
        a \in Positive, b \in Positive, c \in Positive,
        t1 \in Optional(Leaf("firstField")) \cup {<<Leaf("second")>>, <<Leaf("string")>>},
        t2 \in Optional(Leaf("overrideTypeCost"))}

RootLeaves ==
    {Leaf("defaultCost"), Leaf("customCost"), Leaf("badComplexityArgument"),
     Leaf("overrideTypeCost"), Leaf("getCostByType"), Leaf("unknownField"),
     BadArgsNode("customCostWithResolver")}
    \cup {Limit("customCostWithResolver", v, <<>>) : v \in LimitVals}

\* one or two fields of the root type
FlatOps ==
    {Query(<<x>>) : x \in RootLeaves}
    \cup {Query(<<x, y>>) : x \in RootLeaves, y \in RootLeaves}

SeveralArgs(a, b, l) == [first |-> a, last |-> b, list |-> l]

\* fields with several multiplier arguments, without and with children
SeveralOps ==
    {Query(<<FieldNode("severalMultipliers", SeveralArgs(a, b, l), <<>>)>>) :
        a \in LimitVals \cup {StrVal}, b \in LimitVals, l \in ListVals}
    \cup
    {Query(<<FieldNode("pages", SeveralArgs(a, b, Undefined),
                       <<Limit("third", c, <<>>)>>)>>) :
        a \in LimitVals, b \in LimitVals, c \in Positive}

\* a field that ignores multipliers, below and above fields that use them
PlainOps ==
    {Query(<<Limit("first", a,
               <<Limit("costWithoutMultipliers", b,
                       <<Limit("third", IntVal(2), <<>>)>>)>> \o t)>>) :
        a \in LimitVals, b \in LimitVals,
        t \in Optional(Limit("legacy", IntVal(2), <<>>))}

\* branches that hold multiplier fields, or none
PagedBranches ==
    {InlineFragment(Some("First"), <<Leaf("firstField")>>),
     InlineFragment(None, <<Limit("second", IntVal(1), <<Leaf("secondField")>>)>>),
     FragmentSpread("pagedSecond"),
     FragmentSpread("missing")}

\* the branches of a polymorphic selection
Branches ==
    PagedBranches
    \cup
    {InlineFragment(Some("Second"), <<Leaf("secondField"), Leaf("common")>>),
     InlineFragment(Some("Missing"), <<Leaf("secondField")>>),
     InlineFragment(None, <<Leaf("common")>>),
     FragmentSpread("secondFields"),
     FragmentSpread("firstFields")}
    \cup {InlineFragment(Some("Second"), <<Limit("third", v, <<>>)>>) : v \in Positive}

PolySelections ==
    {f \o <<x>> \o g : x \in Branches,
                       f \in Optional(Leaf("common")), g \in Optional(Leaf("common"))}
    \cup {<<x, y>> : x \in Branches, y \in Branches}
    \cup {<<Leaf("common"),
            InlineFragment(Some("First"), <<Leaf("firstField")>>),
            FragmentSpread("secondFields")>>}

\* the query of the README's union/interface example
ReadmeQuery ==
    Query(<<FieldNode("firstOrSecond", NoArgs,
                <<InlineFragment(Some("First"), <<Leaf("firstField")>>),
                  FragmentSpread("secondFields")>>),
            FieldNode("commonType", NoArgs,
                <<Leaf("common"), FragmentSpread("secondFields")>>)>>)

\* selections on a union or an interface, and fragments below a multiplier
PolyOps ==
    {ReadmeQuery}
    \cup {Query(<<FieldNode(p, NoArgs, sel)>>) :
             p \in {"commonType", "firstOrSecond"}, sel \in PolySelections}
    \cup {Query(<<Limit("first", a,
                    <<x, Limit("second", b, <<Limit("third", b, <<>>)>>), y>>)>>) :
             a \in Positive, b \in Positive,
             x \in PagedBranches, y \in PagedBranches}
    \cup {Query(<<x>>) : x \in Branches}

\* fragments that spread themselves, directly or through another one
CyclicOps ==
    {Query(<<Limit("first", a, <<FragmentSpread(f)>> \o t)>>) :
        a \in Positive, f \in {"selfSpread", "ping", "pong"},
        t \in Optional(Leaf("firstField"))}

\* the operations of a document that holds several of them
FollowUps ==
    {Query(<<Leaf("customCost")>>),
     Query(<<Leaf("overrideTypeCost")>>),
     Query(<<Limit("first", IntVal(2), <<Limit("second", IntVal(2), <<>>)>>)>>),
     Operation("mutation", <<Leaf("customCost")>>),
     Operation("subscription", <<Leaf("customCost")>>),
     Operation("fragment", <<Leaf("customCost")>>)}

\* the operations of a document that holds one
Operations ==
    ChainOps \cup FlatOps \cup SeveralOps \cup PlainOps \cup PolyOps \cup CyclicOps
    \cup FollowUps

-----------------------------------------------------------------------------
(* The evaluator *)

\* variant: a range of one value passes the assertion
validOptionsOrEqual(o) ==
    /\ IsSome(o.maximumCost) /\ Get(o.maximumCost) > 0
    /\ IsSome(o.complexityRange) =>
          LET r == Get(o.complexityRange)
          IN  /\ IsSome(r.min) /\ Get(r.min) # 0
              /\ IsSome(r.max) /\ Get(r.max) # 0
              /\ Get(r.min) <= Get(r.max)

\* the assertions of the constructor hold
validOptions(o) ==
    /\ IsSome(o.maximumCost) /\ Get(o.maximumCost) > 0
    /\ IsSome(o.complexityRange) =>
          LET r == Get(o.complexityRange)
          IN  /\ IsSome(r.min) /\ Get(r.min) # 0
              /\ IsSome(r.max) /\ Get(r.max) # 0
              /\ Get(r.min) < Get(r.max)

\* options.defaultCost || 0
defaultCostOf(o) ==
    IF IsSome(o.defaultCost) /\ Get(o.defaultCost) # 0 THEN Get(o.defaultCost) ELSE 0

\* (options.complexityRange && options.complexityRange.min) || 1
defaultComplexityOf(o) ==
    IF IsSome(o.complexityRange) /\ IsSome(Get(o.complexityRange).min)
       /\ Get(Get(o.complexityRange).min) # 0
    THEN Get(Get(o.complexityRange).min)
    ELSE 1

constructor(o) ==
    /\ options = o
    /\ phase = IF validOptions(o) THEN "constructed" ELSE "threw"
    /\ cost = 0
    /\ operationMultipliers = <<>>
    /\ defaultCost = IF validOptions(o) THEN defaultCostOf(o) ELSE 0
    /\ defaultComplexity = IF validOptions(o) THEN defaultComplexityOf(o) ELSE 1
    /\ errors = <<>>
    /\ completed = <<>>
    /\ warnings = 0
    /\ operation = NoOperation
    /\ returned = 0
    /\ visitLog = <<>>
    /\ levelLog = <<>>
    /\ entered = 0
    /\ calls = <<>>
    /\ more = validOptions(o)

Init ==
    /\ \E o \in Options : constructor(o)
    /\ production \in BOOLEAN

\* this.createError()
createError ==
    IF options.createError
    THEN CustomError(Get(options.maximumCost), cost)
    ELSE CostError(Get(options.maximumCost), cost)

\* the evaluator after the walk of operation op; an exception of the walk
\* leaves the hook before this.cost is assigned
afterWalk(walk) ==
    /\ phase' = IF walk.st.threw THEN "threw" ELSE "entered"
    /\ cost' = IF walk.st.threw THEN cost ELSE cost + walk.ret
    /\ returned' = IF walk.st.threw THEN 0 ELSE walk.ret
    /\ operationMultipliers' = walk.st.operationMultipliers
    /\ errors' = walk.st.errors
    /\ warnings' = walk.st.warnings
    /\ visitLog' = IF walk.st.threw THEN <<>> ELSE walk.st.visitLog
    /\ levelLog' = IF walk.st.threw THEN <<>> ELSE walk.st.levelLog

\* variant: the walk of an operation starts from the chain the last one left
leftoverMultipliers == operationMultipliers

\* line 321: the hook passes no parentMultipliers, the default [] is taken
rootMultipliers == <<>>

\* variant: an operation of any other kind is walked like a query
onOperationDefinitionEnterAsQuery(op) ==
    /\ phase \in {"constructed", "left"}
    /\ operation' = op
    /\ entered' = entered + 1
    /\ afterWalk(computeNodeCost(
                     op.selections,
                     IF op.operation \in {"mutation", "subscription"}
                     THEN RootType(op.operation) ELSE RootType("query"),
                     rootMultipliers, <<>>, WalkState(operationMultipliers, errors, warnings)))
    /\ UNCHANGED <<options, defaultCost, defaultComplexity, completed, calls,
                   production>>

onOperationDefinitionEnter(op) ==
    /\ phase \in {"constructed", "left"}
    /\ operation' = op
    /\ entered' = entered + 1
    /\ IF op.operation \in {"query", "mutation", "subscription"}
       THEN afterWalk(computeNodeCost(op.selections, RootType(op.operation),
                                      rootMultipliers, <<>>,
                                      WalkState(operationMultipliers, errors,
                                                warnings)))
       ELSE /\ phase' = "threw"
            /\ UNCHANGED <<cost, returned, operationMultipliers, errors, warnings,
                           visitLog, levelLog>>
    /\ UNCHANGED <<options, defaultCost, defaultComplexity, completed, calls,
                   production>>

\* variant: a cost equal to the maximum is over the budget
atOrOverBudget == cost >= Get(options.maximumCost)

\* line 129: this.cost > this.options.maximumCost
overBudget == cost > Get(options.maximumCost)

\* variant: the callback is skipped when the error is reported
leaveCallsWithinBudget ==
    IF overBudget
    THEN <<[fn |-> "reportError", error |-> createError]>>
    ELSE IF options.onComplete THEN <<[fn |-> "onComplete", cost |-> cost]>> ELSE <<>>

\* lines 125-131: the calls of the leave hook, in order
leaveCalls ==
    (IF options.onComplete THEN <<[fn |-> "onComplete", cost |-> cost]>> ELSE <<>>)
    \o (IF overBudget THEN <<[fn |-> "reportError", error |-> createError]>> ELSE <<>>)

IsOnComplete(call) == call.fn = "onComplete"
IsReportError(call) == call.fn = "reportError"
\* the costs handed to options.onComplete by the calls cs
completedBy(cs) ==
    LET sel == SelectSeq(cs, IsOnComplete) IN [i \in 1..Len(sel) |-> sel[i].cost]
\* the errors handed to context.reportError by the calls cs
reportedBy(cs) ==
    LET sel == SelectSeq(cs, IsReportError) IN [i \in 1..Len(sel) |-> sel[i].error]

onOperationDefinitionLeave ==
    /\ phase = "entered"
    /\ phase' = "left"
    /\ calls' = leaveCalls
    /\ completed' = completed \o completedBy(leaveCalls)
    /\ errors' = errors \o reportedBy(leaveCalls)
    /\ operation' = NoOperation
    /\ returned' = 0
    /\ visitLog' = <<>>
    /\ levelLog' = <<>>
    /\ UNCHANGED <<options, cost, operationMultipliers, defaultCost,
                   defaultComplexity, warnings, entered, production>>

\* the traversal enters the next operation of the document
Enter ==
    /\ more
    /\ \E op \in (IF entered = 0 THEN Operations ELSE FollowUps) :
          /\ onOperationDefinitionEnter(op)
          /\ more' = (op \in FollowUps /\ entered + 1 < MaxOps)

Leave ==
    /\ onOperationDefinitionLeave
    /\ UNCHANGED more

Next == Enter \/ Leave

Spec == Init /\ [][Next]_vars

-----------------------------------------------------------------------------
(* What the properties read from a state *)

Entered == phase = "entered"
FirstEntered == phase = "entered" /\ entered = 1
DirectiveMode == options.costMap = None
NoRange == options.complexityRange = None

Visits == {visitLog[i] : i \in DOMAIN visitLog}
Levels == {levelLog[i] : i \in DOMAIN levelLog}
\* the field selections that were resolved and priced
FieldVisits == {v \in Visits : v.kind = "Field" /\ v.resolved}
\* the visits of the children of the node at path p
ChildVisits(p) ==
    {v \in Visits : Len(v.path) = Len(p) + 1 /\ SubSeq(v.path, 1, Len(p)) = p}
HasVisit(p) == \E v \in Visits : v.path = p
VisitAt(p) == CHOOSE v \in Visits : v.path = p

RECURSIVE Product(_)
Product(s) == IF s = <<>> THEN 1 ELSE Head(s) * Product(Tail(s))

RECURSIVE SumAdded(_)
SumAdded(S) ==
    IF S = {} THEN 0
    ELSE LET v == CHOOSE x \in S : TRUE IN v.added + SumAdded(S \ {v})

\* the greatest childCost of a non-empty set of visits
MaxChildCost(S) == CHOOSE m \in {v.childCost : v \in S} : \A v \in S : v.childCost <= m

\* the numeric value of an argument that is a number or is not supplied
Num(v) == IF v.t = "int" THEN v.n ELSE 0

\* the field definition a visit resolved
FieldOf(v) == Schema[v.parentType].fields[v.name]

\* visit v was priced from complexity c and flag u by the formula: the
\* default cost and one error outside the range, else c, scaled by the chain
\* its children see when u holds
PricedBy(v, c, u) ==
    IF /\ options.complexityRange # None
       /\ \/ c > Get(Get(options.complexityRange).max)
          \/ c < Get(Get(options.complexityRange).min)
    THEN v.own = defaultCost /\ v.reported = 1 /\ v.chainOut = v.chainIn
    ELSE /\ v.reported = 0
         /\ v.own = IF u THEN c * Product(v.chainOut) ELSE c

OrDefault(o, d) == IF o = None THEN d ELSE Get(o)

\* the entry the configured cost map holds for a field of a type, if any
MapEntry(parentType, name) ==
    IF /\ options.costMap # None
       /\ parentType \in DOMAIN Get(options.costMap)
       /\ name \in DOMAIN Get(options.costMap)[parentType]
    THEN Some(Get(options.costMap)[parentType][name])
    ELSE None

-----------------------------------------------------------------------------
(* C1 *)

\* C1: nested fields first/second/third, each with the multiplier argument
\* limit, queried with limit = L > 0 at every level and no complexity range,
\* total L*c1 + L*L*c2 + L*L*L*c3; with limits a, b, c the own costs are
\* c1*a, c2*a*b and c3*a*b*c.
C1_NestedMultipliers ==
    (FirstEntered /\ DirectiveMode /\ NoRange) =>
        /\ \A L \in 1..MaxArg :
              operation = Chain(IntVal(L), IntVal(L), IntVal(L), <<>>, <<>>) =>
                  /\ returned = L * firstComplexity + L * L * secondComplexity
                                + L * L * L * thirdComplexity
                  /\ cost = returned
        /\ \A a \in 1..MaxArg, b \in 1..MaxArg, c \in 1..MaxArg :
              operation = Chain(IntVal(a), IntVal(b), IntVal(c), <<>>, <<>>) =>
                  /\ VisitAt(<<1>>).own = firstComplexity * a
                  /\ VisitAt(<<1, 1>>).own = secondComplexity * a * b
                  /\ VisitAt(<<1, 1, 1>>).own = thirdComplexity * a * b * c
                  /\ returned = firstComplexity * a + secondComplexity * a * b
                                + thirdComplexity * a * b * c

C1_Witness ==
    /\ FirstEntered /\ DirectiveMode /\ NoRange
    /\ operation = Chain(IntVal(2), IntVal(2), IntVal(2), <<>>, <<>>)
    /\ cost = 72
    /\ operationMultipliers = <<2, 2, 2>>

-----------------------------------------------------------------------------
(* C2 *)

SeveralQuery(a, b, l) ==
    Query(<<FieldNode("severalMultipliers", SeveralArgs(a, b, l), <<>>)>>)
PagesQuery(a, b, c) ==
    Query(<<FieldNode("pages", SeveralArgs(a, b, Undefined),
                      <<Limit("third", c, <<>>)>>)>>)

\* C2: a root field with useMultipliers and several multiplier arguments
\* costs its complexity times the sum of the values that resolved (at least
\* one does), and its children see that sum as the one value it added to
\* the chain.
C2_SumOfMultipliers ==
    (FirstEntered /\ DirectiveMode) =>
        /\ \A a \in LimitVals, b \in LimitVals, l \in ListVals :
              (/\ operation = SeveralQuery(a, b, l)
               /\ (Num(a) # 0 \/ Num(b) # 0 \/ Len(l.items) # 0)) =>
                  /\ VisitAt(<<1>>).own =
                         fourthComplexity * (Num(a) + Num(b) + Len(l.items))
                  /\ VisitAt(<<1>>).chainOut = <<Num(a) + Num(b) + Len(l.items)>>
        /\ \A a \in LimitVals, b \in LimitVals, c \in Positive :
              (/\ operation = PagesQuery(a, b, c)
               /\ (Num(a) # 0 \/ Num(b) # 0)) =>
                  /\ VisitAt(<<1>>).own = fourthComplexity * (Num(a) + Num(b))
                  /\ VisitAt(<<1>>).chainOut = <<Num(a) + Num(b)>>
                  /\ VisitAt(<<1, 1>>).chainIn = <<Num(a) + Num(b)>>
                  /\ NoRange =>
                        VisitAt(<<1, 1>>).own =
                            thirdComplexity * (Num(a) + Num(b)) * Num(c)

C2_Witness ==
    /\ FirstEntered /\ DirectiveMode /\ NoRange
    /\ operation = PagesQuery(IntVal(2), IntVal(1), IntVal(2))
    /\ VisitAt(<<1>>).own = 12
    /\ VisitAt(<<1, 1>>).chainIn = <<3>>
    /\ VisitAt(<<1, 1>>).own = 36

-----------------------------------------------------------------------------
(* C3 *)

InterfaceQuery ==
    Query(<<FieldNode("commonType", NoArgs,
                <<Leaf("common"),
                  InlineFragment(Some("First"), <<Leaf("firstField")>>),
                  FragmentSpread("secondFields")>>)>>)

\* C3: every selection set is worth the sum of what its fields add plus the
\* greatest of the costs of its fragment spreads and inline fragments (0
\* without any); a common field of 3 with branches of 5 and 8 gives 11.
C3_SumOfFieldsPlusMaxOfFragments ==
    Entered =>
        /\ \A lv \in Levels :
              LET fields == {v \in ChildVisits(lv.path) : v.kind = "Field"}
                  branches == {v \in ChildVisits(lv.path) : v.kind # "Field"}
              IN  lv.ret = SumAdded(fields)
                           + (IF branches = {} THEN 0 ELSE MaxChildCost(branches))
        /\ (DirectiveMode /\ NoRange /\ entered = 1 /\ defaultCost = 0) =>
              /\ operation = InterfaceQuery => returned = 11
              /\ operation = ReadmeQuery => returned = 19

C3_Witness ==
    /\ FirstEntered /\ DirectiveMode /\ NoRange /\ defaultCost = 0
    /\ operation = InterfaceQuery
    /\ VisitAt(<<1, 1>>).added = 3
    /\ VisitAt(<<1, 2>>).childCost = 5
    /\ VisitAt(<<1, 3>>).childCost = 8
    /\ returned = 11

-----------------------------------------------------------------------------
(* C4 *)

\* neither the field nor its output type carries a cost directive
NoMetadata(v) ==
    /\ FieldOf(v).directives = None
    /\ Schema[FieldOf(v).type].directives = None

\* C4: without a cost map, a field without cost metadata on itself and on
\* its output type has the default cost as its own cost (0 when the option
\* is not given), whatever the chain of its ancestors.
C4_DefaultCost ==
    (Entered /\ DirectiveMode) =>
        \A v \in FieldVisits :
            NoMetadata(v) =>
                /\ v.own = OrDefault(options.defaultCost, 0)
                /\ v.evaluations = 0

C4_Witness ==
    /\ Entered /\ DirectiveMode
    /\ options.defaultCost = Some(2)
    /\ \E v \in FieldVisits :
          /\ NoMetadata(v)
          /\ Product(v.chainIn) > 1
          /\ v.own = 2

-----------------------------------------------------------------------------
(* C5 *)

\* the configuration the field of visit v is given, if any
ConfigOf(v) ==
    IF DirectiveMode THEN FieldOf(v).directives ELSE MapEntry(v.parentType, v.name)

InsideRange(c) ==
    \/ options.complexityRange = None
    \/ /\ c <= Get(Get(options.complexityRange).max)
       /\ c >= Get(Get(options.complexityRange).min)

-----------------------------------------------------------------------------
(* C6 *)

\* C6: for every schema, query and options the value returned by the walk
\* and the accumulated cost are never negative, and no level of the walk is
\* worth less than 0.
C6_NeverNegative ==
    Entered =>
        /\ returned >= 0
        /\ cost >= 0
        /\ \A lv \in Levels : lv.ret >= 0

-----------------------------------------------------------------------------
(* C7 *)

IsPrefix(s, t) == Len(s) <= Len(t) /\ SubSeq(t, 1, Len(s)) = s

\* C7: every child of a node starts from the chain its parent received plus
\* the parent's own multiplier, whatever its earlier siblings appended; a
\* field without multiplier values after a sibling subtree with multipliers
\* is priced with the chain of its parent only.
C7_SiblingsStartFromParentChain ==
    Entered =>
        /\ \A v \in Visits :
              IF Len(v.path) = 1
              THEN v.chainIn = <<>>
              ELSE LET parent == VisitAt(SubSeq(v.path, 1, Len(v.path) - 1))
                   IN  /\ v.chainIn = parent.chainOut
                       /\ IsPrefix(parent.chainIn, parent.chainOut)
                       /\ Len(parent.chainOut) <= Len(parent.chainIn) + 1
        /\ (DirectiveMode /\ NoRange) =>
              \A a \in 1..MaxArg, b \in 1..MaxArg, c \in 1..MaxArg :
                  operation = Chain(IntVal(a), IntVal(b), IntVal(c),
                                    <<Leaf("second")>>, <<Leaf("overrideTypeCost")>>) =>
                      /\ VisitAt(<<1, 2>>).own = secondComplexity * a
                      /\ VisitAt(<<2>>).own = 2
                      /\ operationMultipliers = <<>>

C7_Witness ==
    /\ FirstEntered /\ DirectiveMode /\ NoRange
    /\ operation = Chain(IntVal(2), IntVal(2), IntVal(2),
                         <<Leaf("second")>>, <<Leaf("overrideTypeCost")>>)
    /\ VisitAt(<<1, 1, 1>>).chainOut = <<2, 2, 2>>
    /\ VisitAt(<<1, 2>>).chainIn = <<2>>
    /\ VisitAt(<<1, 2>>).own = 10
    /\ VisitAt(<<2>>).chainIn = <<>>

-----------------------------------------------------------------------------
(* C8 *)

\* C8: with a cost map every field is priced from the map alone: a field the
\* map does not name has the default cost and no directive is priced for it,
\* even when the schema annotates it, and a field the map names is priced
\* from the entry's settings.
C8_CostMapAlone ==
    (Entered /\ ~DirectiveMode) =>
        \A v \in FieldVisits :
            LET entry == MapEntry(v.parentType, v.name)
            IN  IF entry = None
                THEN /\ v.own = defaultCost
                     /\ v.evaluations = 0
                     /\ v.chainOut = v.chainIn
                ELSE /\ v.evaluations = 1
                     /\ PricedBy(v, OrDefault(Get(entry).complexity, defaultComplexity),
                                 OrDefault(Get(entry).useMultipliers, TRUE))

C8_Witness ==
    /\ Entered /\ ~DirectiveMode
    /\ options.defaultCost = Some(2)
    /\ \E v \in FieldVisits :
          /\ v.name = "third"
          /\ FieldOf(v).directives # None
          /\ MapEntry(v.parentType, v.name) = None
          /\ v.chainIn = <<2, 2>>
          /\ v.own = 2

-----------------------------------------------------------------------------
(* C9 *)

\* the visits of fields whose entry in the map has no setting at all
EmptyEntryVisits ==
    {v \in FieldVisits : MapEntry(v.parentType, v.name) = Some(EmptyEntry)}

-----------------------------------------------------------------------------
(* C10 *)

\* the output type of the field is an object type with a cost directive
TypeLevel(v) ==
    /\ Schema[FieldOf(v).type].kind = "Object"
    /\ Schema[FieldOf(v).type].directives # None

\* C10: without a cost map a field-level directive is the only one priced
\* for its field; the directive of the output type is priced only when the
\* field has none and the type is an object type; at most one configuration
\* is priced and at most one range error reported per field, also when the
\* field-level complexity is outside the range.
C10_FieldLevelFirst ==
    (Entered /\ DirectiveMode) =>
        \A v \in FieldVisits :
            /\ v.evaluations <= 1
            /\ v.reported <= 1
            /\ IF FieldOf(v).directives # None
               THEN /\ v.evaluations = 1
                    /\ PricedBy(v,
                           OrDefault(Get(FieldOf(v).directives).complexity, defaultComplexity),
                           OrDefault(Get(FieldOf(v).directives).useMultipliers, TRUE))
               ELSE IF TypeLevel(v)
               THEN /\ v.evaluations = 1
                    /\ PricedBy(v,
                           OrDefault(Get(Schema[FieldOf(v).type].directives).complexity,
                                     defaultComplexity),
                           OrDefault(Get(Schema[FieldOf(v).type].directives).useMultipliers,
                                     TRUE))
               ELSE v.evaluations = 0 /\ v.own = defaultCost /\ v.reported = 0

\* a field-level complexity outside the range while the type-level one is inside
C10_Witness ==
    /\ Entered /\ DirectiveMode
    /\ options.complexityRange = Some(Range(Some(3), Some(10)))
    /\ \E v \in FieldVisits :
          /\ v.name = "overrideTypeCost"
          /\ FieldOf(v).directives # None /\ TypeLevel(v)
          /\ v.own = defaultCost
          /\ v.evaluations = 1
          /\ v.reported = 1

-----------------------------------------------------------------------------
(* C11 *)

RangeMin == Get(Get(options.complexityRange).min)
RangeMax == Get(Get(options.complexityRange).max)

\* the field of visit v is given a configuration
Configured(v) ==
    IF DirectiveMode
    THEN FieldOf(v).directives # None \/ TypeLevel(v)
    ELSE MapEntry(v.parentType, v.name) # None

\* the complexity of that configuration
ComplexityOf(v) ==
    IF ~DirectiveMode
    THEN OrDefault(Get(MapEntry(v.parentType, v.name)).complexity, defaultComplexity)
    ELSE IF FieldOf(v).directives # None
    THEN OrDefault(Get(FieldOf(v).directives).complexity, defaultComplexity)
    ELSE OrDefault(Get(Schema[FieldOf(v).type].directives).complexity,
                   defaultComplexity)

RECURSIVE SumReported(_)
SumReported(S) ==
    IF S = {} THEN 0
    ELSE LET v == CHOOSE x \in S : TRUE IN v.reported + SumReported(S \ {v})

\* C11: with a complexity range, every field occurrence whose complexity is
\* below min or above max reports exactly one error naming min and max and
\* has the default cost as own cost; a complexity equal to min or to max
\* reports nothing; the fields after it are still evaluated.
C11_ComplexityRange ==
    (Entered /\ options.complexityRange # None) =>
        /\ \A v \in FieldVisits :
              IF Configured(v) /\ (ComplexityOf(v) < RangeMin \/ ComplexityOf(v) > RangeMax)
              THEN v.reported = 1 /\ v.own = defaultCost
              ELSE v.reported = 0
        /\ \A i \in DOMAIN operation.selections : HasVisit(<<i>>)
        /\ entered = 1 =>
              /\ Len(errors) = SumReported(Visits)
              /\ \A i \in DOMAIN errors : errors[i] = RangeError(RangeMin, RangeMax)

C11_Witness ==
    /\ FirstEntered /\ DirectiveMode
    /\ options.complexityRange = Some(Range(Some(2), Some(8)))
    /\ operation = Query(<<Leaf("badComplexityArgument"), Leaf("customCost")>>)
    /\ VisitAt(<<1>>).own = defaultCost /\ VisitAt(<<1>>).reported = 1
    /\ VisitAt(<<2>>).own = customCost /\ VisitAt(<<2>>).reported = 0
    /\ errors = <<RangeError(2, 8)>>

-----------------------------------------------------------------------------
(* C12 *)

\* nothing was evaluated, reported or completed
NothingEvaluated ==
    /\ phase = "threw"
    /\ entered = 0
    /\ cost = 0
    /\ errors = <<>>
    /\ completed = <<>>

RangeGiven == options.complexityRange # None
GivenRange == Get(options.complexityRange)

\* C12: the constructor throws, and no operation is ever evaluated, when
\* maximumCost is not a number or is <= 0, and when a complexity range is
\* given with min or max missing or with min >= max.
C12_ConstructorRejects ==
    (\/ options.maximumCost = None
     \/ Get(options.maximumCost) <= 0
     \/ /\ RangeGiven
        /\ \/ GivenRange.min = None
           \/ GivenRange.max = None
           \/ Get(GivenRange.min) >= Get(GivenRange.max))
    => NothingEvaluated

C12_Witness ==
    /\ options.maximumCost = Some(19)
    /\ options.complexityRange = Some(Range(Some(5), Some(5)))
    /\ NothingEvaluated
    /\ ~ENABLED Next

-----------------------------------------------------------------------------
(* C13 *)

\* C13: the constructor throws for every complexity range with a bound that
\* is zero or negative, also when min < max.
C13_NonPositiveBoundsRejected ==
    (/\ RangeGiven
     /\ GivenRange.min # None /\ GivenRange.max # None
     /\ (Get(GivenRange.min) <= 0 \/ Get(GivenRange.max) <= 0))
    => phase = "threw"

-----------------------------------------------------------------------------
(* C14 *)

\* a step of the leave hook
LeaveStep == phase = "entered" /\ phase' # "entered"

\* the error of a cost above the maximum
ExceededError ==
    IF options.createError
    THEN CustomError(Get(options.maximumCost), cost)
    ELSE CostError(Get(options.maximumCost), cost)

\* C14: leaving an operation reports a cost-exceeded error if and only if
\* cost > maximumCost (nothing when they are equal), exactly one, the value
\* of createError(maximumCost, cost) when the option is a function and the
\* message with maximumCost and cost otherwise; the hook does not throw.
C14_ExceededIffAboveMaximum ==
    [][LeaveStep =>
          /\ phase' = "left"
          /\ cost' = cost
          /\ IF cost > Get(options.maximumCost)
             THEN errors' = Append(errors, ExceededError)
             ELSE errors' = errors]_vars

C14_Witness ==
    /\ phase = "left"
    /\ entered = 1
    /\ cost = 72
    /\ options.maximumCost = Some(19)
    /\ ~options.createError
    /\ errors = <<CostError(19, 72)>>

-----------------------------------------------------------------------------
(* C15 *)

\* C15: with an onComplete callback every leave calls it exactly once with
\* the evaluator's cost, over the budget or not, and before the
\* cost-exceeded error is reported; the error carries the same cost.
C15_OnCompleteFirst ==
    (phase = "left" /\ options.onComplete) =>
        /\ Len(calls) >= 1
        /\ calls[1].fn = "onComplete"
        /\ calls[1].cost = cost
        /\ \A i \in 2..Len(calls) : calls[i].fn # "onComplete"
        /\ Len(completed) = entered
        /\ completed[entered] = cost
        /\ IF cost > Get(options.maximumCost)
           THEN /\ Len(calls) = 2
                /\ calls[2].fn = "reportError"
                /\ calls[2].error = CostError(Get(options.maximumCost), calls[1].cost)
                /\ errors[Len(errors)] = calls[2].error
           ELSE Len(calls) = 1

C15_Witness ==
    /\ phase = "left" /\ options.onComplete
    /\ entered = 2
    /\ completed = <<8, 32>>
    /\ Len(calls) = 2
    /\ calls[1].fn = "onComplete" /\ calls[2].fn = "reportError"
    /\ errors = <<CostError(19, 32)>>

-----------------------------------------------------------------------------
(* C16 *)

\* the enter hook is handed an operation that is no query, mutation or
\* subscription
EnterOtherKind ==
    /\ phase \in {"constructed", "left"}
    /\ operation'.operation \notin {"query", "mutation", "subscription", "none"}

\* C16: entering an operation of any other kind than query, mutation and
\* subscription throws; the cost is unchanged and the call reports nothing.
C16_OtherKindThrows ==
    [][EnterOtherKind =>
          /\ phase' = "threw"
          /\ cost' = cost
          /\ errors' = errors
          /\ completed' = completed
          /\ warnings' = warnings]_vars

C16_Witness ==
    /\ phase = "threw"
    /\ entered = 2
    /\ operation.operation = "fragment"
    /\ cost = customCost
    /\ errors = <<>>

-----------------------------------------------------------------------------
(* C17 *)

\* the field selections that were skipped: no such field on the type, or
\* arguments that do not coerce
SkippedVisits == {v \in Visits : v.kind = "Field" /\ ~v.resolved}

\* C17: a field selection that is not defined on the current type, or whose
\* arguments do not coerce, adds 0 to its level for every default cost and
\* reports no error; its siblings are evaluated with the same chain.
C17_SkippedFieldAddsNothing ==
    Entered =>
        \A v \in SkippedVisits :
            /\ v.added = 0
            /\ v.reported = 0
            /\ \A w \in Visits :
                  (Len(w.path) = Len(v.path)
                   /\ SubSeq(w.path, 1, Len(w.path) - 1) = SubSeq(v.path, 1, Len(v.path) - 1))
                  => w.chainIn = v.chainIn

-----------------------------------------------------------------------------
(* C18 *)

ResolverQuery(v) == Query(<<Limit("customCostWithResolver", v, <<>>)>>)

\* C18: a multiplier name declared with a default value, {limit: 2}, counts
\* with the default when the query does not supply the argument and with
\* the supplied value when it does.
C18_DefaultMultiplier ==
    \A v \in {Undefined} \cup Positive :
        (/\ entered = 1
         /\ operation = ResolverQuery(v)
         /\ options.costMap = Some(CostMapA)) =>
            /\ phase = "entered"
            /\ VisitAt(<<1>>).own =
                   fourthComplexity * (IF v = Undefined THEN 2 ELSE Num(v))

-----------------------------------------------------------------------------
(* C19 *)

\* C19 as stated, on an entry {multiplier: 'limit', complexity: 3} of
\* First.second: whenever the argument is supplied the multiplier is used as
\* a one-element list, so the field costs 3 times the chain times the value,
\* and the occurrence emits the deprecation warning exactly once.
C19_DeprecatedWhenPresent ==
    (FirstEntered /\ options.costMap = Some(CostMapA)) =>
        \A a \in Positive, b \in LimitVals \ {Undefined}, c \in LimitVals :
            operation = Chain(a, b, c, <<>>, <<>>) =>
                /\ VisitAt(<<1, 1>>).own = 3 * Num(a) * Num(b)
                /\ warnings = 1
                /\ errors = <<>>

\* C19: the deprecated multiplier is used as a one-element list if and only
\* if its value is a number other than 0 and the plural list resolves to no
\* value (a plural list with a value wins), costing complexity * value at the
\* root; every occurrence whose deprecated value is such a number warns
\* once, unless NODE_ENV is production, where nothing is emitted; no error
\* is reported.
C19_DeprecatedWhenTruthy ==
    (FirstEntered /\ options.costMap = Some(CostMapA)) =>
        /\ \A a \in LimitVals, b \in LimitVals, l \in ListVals :
              operation = SeveralQuery(a, b, l) =>
                  /\ VisitAt(<<1>>).own =
                         fourthComplexity * (IF Num(a) # 0 THEN Num(a)
                                             ELSE IF Num(b) # 0 THEN Num(b) ELSE 1)
                  /\ VisitAt(<<1>>).chainOut =
                         (IF Num(a) # 0 THEN <<Num(a)>>
                          ELSE IF Num(b) # 0 THEN <<Num(b)>> ELSE <<>>)
                  /\ warnings = (IF Num(b) # 0 /\ ~production THEN 1 ELSE 0)
                  /\ errors = <<>>
        /\ \A a \in Positive, b \in LimitVals, c \in LimitVals :
              operation = Chain(a, b, c, <<>>, <<>>) =>
                  /\ VisitAt(<<1, 1>>).own =
                         3 * Num(a) * (IF Num(b) # 0 THEN Num(b) ELSE 1)
                  /\ warnings = (IF Num(b) # 0 /\ ~production THEN 1 ELSE 0)
                  /\ errors = <<>>

C19_Witness ==
    /\ FirstEntered /\ options.costMap = Some(CostMapA) /\ ~production
    /\ operation = SeveralQuery(Undefined, IntVal(2), Undefined)
    /\ VisitAt(<<1>>).own = 8
    /\ VisitAt(<<1>>).chainOut = <<2>>
    /\ warnings = 1

-----------------------------------------------------------------------------
(* C20 *)

\* an error of a cost above the maximum, templated or custom
IsExceededError(e) == e.kind \in {"maximumCost", "createError"}

\* C20: over the operations of one document the cost after every enter is
\* the cost before it plus the cost of the operation entered, and a total
\* above maximumCost is reported exactly once for the session, not once per
\* operation left after the total passed the budget.
C20_ExceededReportedOnce ==
    [][/\ phase' = "entered" => cost' = cost + returned'
       /\ Len(SelectSeq(errors', IsExceededError)) <= 1]_vars

-----------------------------------------------------------------------------
(* C21 *)

\* the multiplier a number n yields: none when n is 0
Kept(n) == IF n = 0 THEN <<>> ELSE <<n>>

\* the names the cost directive of a visited field lists as multipliers
NamesOf(v) == Get(FieldOf(v).directives).multipliers

\* ms holds what the arguments first, last and list are worth, and the chain
\* of visit v grew by their sum
MultipliersAre(v, args, ms) ==
    /\ ms = Kept(Num(args.first)) \o Kept(Num(args.last)) \o Kept(Len(args.list.items))
    /\ \A i \in DOMAIN ms : ms[i] # 0
    /\ Len(ms) <= Len(NamesOf(v))
    /\ ms # <<>> => v.chainOut = <<SumSeq(ms)>>
    /\ ms = <<>> => v.chainOut = <<>>

\* C21: getMultipliersFromString maps each name, in order, to the length of
\* a list argument and else to the number the argument coerces to, and drops
\* what is 0, missing or not a number (an empty list too): for the names
\* coucou, first, last, list the result is the kept values of first and last
\* and the item count of list, in that order, without any 0, and the chain
\* of the field grows by their sum.
C21_MultipliersFromString ==
    (FirstEntered /\ DirectiveMode /\ operation.selections[1].name = "severalMultipliers") =>
        MultipliersAre(VisitAt(<<1>>), operation.selections[1].args,
                       getMultipliersFromString(NamesOf(VisitAt(<<1>>)),
                                                operation.selections[1].args))

C21_Witness ==
    /\ FirstEntered /\ DirectiveMode
    /\ operation = SeveralQuery(StrVal, IntVal(-1), ListVal(<<"item", "item">>))
    /\ getMultipliersFromString(<<"coucou", "first", "last", "list">>,
                                operation.selections[1].args) = <<-1, 2>>
    /\ VisitAt(<<1>>).chainOut = <<1>>
    /\ VisitAt(<<1>>).own = fourthComplexity

-----------------------------------------------------------------------------
(* C22 *)

\* C22: the sum m of a field's own multiplier values is appended to the chain
\* of its children only when m is not 0, so no chain ever holds a 0; when m
\* is 0, because no value resolved or because the values cancel, the children
\* see the incoming chain and the field costs its complexity times the
\* product of the incoming chain.
C22_AppendedOnlyIfNonZero ==
    (FirstEntered /\ DirectiveMode) =>
        /\ \A v \in Visits : \A i \in DOMAIN v.chainOut : v.chainOut[i] # 0
        /\ \A a \in LimitVals, b \in LimitVals, c \in Positive :
              operation = PagesQuery(a, b, c) =>
                  IF Num(a) + Num(b) # 0
                  THEN VisitAt(<<1>>).chainOut = <<Num(a) + Num(b)>>
                  ELSE /\ VisitAt(<<1>>).chainOut = <<>>
                       /\ VisitAt(<<1>>).own = fourthComplexity
                       /\ VisitAt(<<1, 1>>).chainIn = <<>>

-----------------------------------------------------------------------------
(* C23 *)

\* C23: a field whose complexity is outside the range leaves the chain as it
\* received it, also when it names multipliers that have values: its
\* children start from the chain it received and are not scaled by its
\* multiplier (first, complexity 2 under the range 3..10, limit a: second
\* below it costs its complexity times its own limit only).
C23_RejectedLeavesChain ==
    (Entered /\ options.complexityRange # None) =>
        /\ \A v \in FieldVisits :
              (/\ Configured(v)
               /\ (ComplexityOf(v) < RangeMin \/ ComplexityOf(v) > RangeMax)) =>
                  /\ v.chainOut = v.chainIn
                  /\ \A w \in ChildVisits(v.path) : w.chainIn = v.chainIn
        /\ (DirectiveMode /\ RangeMin = 3 /\ RangeMax = 10) =>
              \A a \in LimitVals, b \in LimitVals, c \in LimitVals :
                  operation = Chain(a, b, c, <<>>, <<>>) =>
                      /\ VisitAt(<<1>>).chainOut = <<>>
                      /\ VisitAt(<<1, 1>>).own =
                             secondComplexity * (IF Num(b) # 0 THEN Num(b) ELSE 1)

C23_Witness ==
    /\ FirstEntered /\ DirectiveMode
    /\ options.complexityRange = Some(Range(Some(3), Some(10)))
    /\ operation = Chain(IntVal(2), IntVal(2), IntVal(2), <<>>, <<>>)
    /\ VisitAt(<<1>>).reported = 1
    /\ VisitAt(<<1>>).own = defaultCost
    /\ VisitAt(<<1>>).chainOut = <<>>
    /\ VisitAt(<<1, 1>>).chainIn = <<>>
    /\ VisitAt(<<1, 1>>).own = 10
    /\ VisitAt(<<1, 1, 1>>).own = 24

-----------------------------------------------------------------------------
(* C24 *)

\* an operation whose fields use multipliers at two levels
NestedFollowUp ==
    Query(<<Limit("first", IntVal(2), <<Limit("second", IntVal(2), <<>>)>>)>>)

\* C24: every operation is walked from an empty chain: after every enter the
\* top-level fields of the operation received the empty chain, whatever
\* operationMultipliers held before the enter, so an operation costs the same
\* as first and as later operation of a document.
C24_OperationStartsFromEmptyChain ==
    [][phase' = "entered" =>
          /\ \A i \in DOMAIN visitLog' :
                Len(visitLog'[i].path) = 1 => visitLog'[i].chainIn = <<>>
          /\ (operation' = NestedFollowUp /\ DirectiveMode /\ NoRange) =>
                returned' = 2 * firstComplexity + 2 * 2 * secondComplexity]_vars

\* the same operation twice: the first one left the chain 2, 2
C24_Witness ==
    /\ phase = "entered" /\ entered = 2 /\ DirectiveMode /\ NoRange
    /\ operation = NestedFollowUp
    /\ VisitAt(<<1>>).chainIn = <<>>
    /\ VisitAt(<<1>>).own = 4
    /\ returned = 24
    /\ cost = 48

-----------------------------------------------------------------------------
(* C25 *)

\* the enter hook is handed a query, and the costs come from the schema
EnterQuery ==
    /\ phase \in {"constructed", "left"}
    /\ operation'.operation = "query"
    /\ DirectiveMode

\* C25: the evaluation of an operation returns for every document, also for
\* one whose fragments spread each other in a cycle: no walk of a query ends
\* in an exception.
C25_WalkReturns ==
    [][EnterQuery => phase' = "entered"]_vars

-----------------------------------------------------------------------------
(* C26 *)

\* the sequences that hold x at some place of s
Insertions(x, s) ==
    {SubSeq(s, 1, k) \o <<x>> \o SubSeq(s, k + 1, Len(s)) : k \in 0..Len(s)}

RECURSIVE Reorderings(_)
\* the selection sets that hold the selections sel in any order, the
\* selection set of each of them in any order too
Reorderings(sel) ==
    IF sel = <<>> THEN {<<>>}
    ELSE UNION {Insertions([Head(sel) EXCEPT !.selections = s], rest) :
                   s \in Reorderings(Head(sel).selections),
                   rest \in Reorderings(Tail(sel))}

\* what the walk of the operation entered returns with the selections sel
WalkOf(sel) ==
    computeNodeCost(sel, RootType(operation.operation), <<>>, <<>>,
                    WalkState(<<>>, <<>>, 0))

\* the walk returned, and returned what the operation entered cost
SameCost(walk) == ~walk.st.threw /\ walk.ret = returned

\* C26: the cost of a selection set does not depend on the order of its
\* children: the walk of the operation returns the same value for every
\* order of the selections of every one of its levels.
C26_OrderOfChildren ==
    Entered =>
        \A sel \in Reorderings(operation.selections) \ {operation.selections} :
            SameCost(WalkOf(sel))

\* a field that adds nothing when the default cost is negative, before a
\* field that costs 8
C26_Witness ==
    /\ FirstEntered /\ DirectiveMode /\ defaultCost = -1
    /\ operation = Query(<<Leaf("defaultCost"), Leaf("customCost")>>)
    /\ <<Leaf("customCost"), Leaf("defaultCost")>> \in Reorderings(operation.selections)
    /\ WalkOf(<<Leaf("customCost"), Leaf("defaultCost")>>).ret = customCost
    /\ returned = customCost

-----------------------------------------------------------------------------
(* C27 *)

\* the inline fragment that holds the definition of fragment name
InlineOf(name) ==
    InlineFragment(Some(Fragments[name].typeCondition), Fragments[name].selections)

RECURSIVE Inlined(_)
\* the selections sel with every spread of a defined fragment replaced by
\* the inline fragment of its definition
Inlined(sel) ==
    [i \in DOMAIN sel |->
        IF sel[i].kind = "FragmentSpread" /\ sel[i].name \in DOMAIN Fragments
        THEN InlineOf(sel[i].name)
        ELSE [sel[i] EXCEPT !.selections = Inlined(@)]]

\* the spreads of defined fragments the walk visited
SpreadVisits == {v \in Visits : v.kind = "FragmentSpread" /\ v.resolved}

\* the walk inlined visited, at the place of every spread, an inline fragment
\* that received the same chain and gave the same branch cost
SameBranches(inlined) ==
    /\ ~inlined.st.threw
    /\ inlined.ret = returned
    /\ \A v \in SpreadVisits :
          \E i \in DOMAIN inlined.st.visitLog :
              LET w == inlined.st.visitLog[i]
              IN  /\ w.path = v.path
                  /\ w.kind = "InlineFragment"
                  /\ w.chainIn = v.chainIn /\ w.chainOut = v.chainOut
                  /\ w.childCost = v.childCost
                  /\ w.nodeCost = 0 /\ v.nodeCost = 0

\* C27: a fragment spread is costed like the inline fragment that holds its
\* definition at the same place: both are walked with the chain of the level
\* around them, both add 0 to the sum of the level and both give the same
\* branch cost, so replacing one by the other leaves the cost as it is.
C27_SpreadLikeInline ==
    Entered =>
        /\ \A v \in SpreadVisits :
              /\ v.chainOut = v.chainIn
              /\ v.added = 0
              /\ \A w \in ChildVisits(v.path) : w.chainIn = v.chainIn
        /\ SameBranches(WalkOf(Inlined(operation.selections)))

C27_Witness ==
    /\ FirstEntered /\ DirectiveMode /\ NoRange
    /\ Inlined(operation.selections) # operation.selections
    /\ WalkOf(Inlined(operation.selections)).ret = returned
    /\ \E v \in SpreadVisits :
          /\ v.name = "pagedSecond"
          /\ v.chainIn = <<2>>
          /\ v.childCost = 2 * 2 * secondComplexity + customCost

====
